---------------------------- MODULE Spec2Model ----------------------------
(***************************************************************************)
(* A state-machine model of src/src/custom-elements.js: the custom element *)
(* registry (define / get / whenDefined), the upgrade algorithm, the       *)
(* HTML element constructor, and the custom element reaction queues        *)
(* (element queue stack, backup element queue, microtask drain).           *)
(*                                                                         *)
(* JavaScript is single threaded; the model keeps an explicit call stack   *)
(* (frames) so that re-entrant calls made by user code (constructors,      *)
(* lifecycle callbacks, property getters, the work function handed to      *)
(* executeCEReactions) are interleaved exactly where the code calls out.   *)
(***************************************************************************)
EXTENDS Integers, Sequences, FiniteSets, TLC

(***************************************************************************)
(* Bounds of the model.                                                    *)
(***************************************************************************)
NumElements == 2    \* elements in the document at installation
NumFresh == 1       \* elements user code may create with new
MaxDefines == 2     \* calls of define user code makes
MaxHooks == 1       \* tree and attribute mutations user code makes
MaxWhenDefined == 2 \* calls of whenDefined user code makes
MaxCalls == 1       \* other calls (executeCEReactions, new, whenDefined)
MaxDepth == 7       \* depth of the call stack at which user code may call

(***************************************************************************)
(* Program constants.                                                      *)
(***************************************************************************)
alreadyConstructedMarker == 1
upgradeReactionType == 1
callbackReactionType == 2
CE_STATE_FAILED == "failed"
CE_STATE_CUSTOM == "custom"
CE_STATE_UNDEFINED == "undefined"
\* No private state record is attached to the element (getPrivateState is falsy).
CE_STATE_UNCUSTOMIZED == "uncustomized"
CE_CALLBACK_CONNECTED == "connectedCallback"
CE_CALLBACK_DISCONNECTED == "disconnectedCallback"
CE_CALLBACK_ADOPTED == "adoptedCallback"
CE_CALLBACK_ATTRIBUTE_CHANGED == "attributeChangedCallback"

\* The nodes of the document at installation, and the nodes the HTML element
\* constructor can still create.
Elements == 1..(NumElements + NumFresh)

\* Names are sequences of UTF-16 code units, as charCodeAt reads them.
NameXA == <<120, 45, 97>>
NameXB == <<120, 45, 98>>
NameDiv == <<100, 105, 118>>
NameFontFace == <<102, 111, 110, 116, 45, 102, 97, 99, 101>>

ReservedNames ==
    { <<97, 110, 110, 111, 116, 97, 116, 105, 111, 110, 45, 120, 109, 108>>,
      <<99, 111, 108, 111, 114, 45, 112, 114, 111, 102, 105, 108, 101>>,
      <<102, 111, 110, 116, 45, 102, 97, 99, 101>>,
      <<102, 111, 110, 116, 45, 102, 97, 99, 101, 45, 115, 114, 99>>,
      <<102, 111, 110, 116, 45, 102, 97, 99, 101, 45, 117, 114, 105>>,
      <<102, 111, 110, 116, 45, 102, 97, 99, 101, 45, 102, 111, 114, 109, 97, 116>>,
      <<102, 111, 110, 116, 45, 102, 97, 99, 101, 45, 110, 97, 109, 101>>,
      <<109, 105, 115, 115, 105, 110, 103, 45, 103, 108, 121, 112, 104>> }

\* One iteration of the character loop of isValidCustomElementName:
\* "continue" (accepted), "hyphen" (accepted, foundHyphen set) or "reject".
NameCharClass(code) ==
    IF code >= 97 /\ code <= 122 THEN "continue"
    ELSE IF code = 45 THEN "hyphen"
    ELSE IF code = 46 \/ code = 95 \/ code = 183 THEN "continue"
    ELSE IF code >= 48 /\ code <= 57 THEN "continue"
    ELSE IF code < 192 THEN "reject"
    ELSE IF code >= 192 /\ code <= 214 THEN "continue"
    ELSE IF code >= 216 /\ code <= 246 THEN "continue"
    ELSE IF code >= 248 /\ code <= 893 THEN "continue"
    ELSE IF code >= 895 /\ code <= 8191 THEN "continue"
    ELSE IF code >= 8204 /\ code <= 8205 THEN "continue"
    ELSE IF code >= 8255 /\ code <= 8256 THEN "continue"
    ELSE IF code >= 8304 /\ code <= 8591 THEN "continue"
    ELSE IF code >= 11264 /\ code <= 12271 THEN "continue"
    ELSE IF code >= 12289 /\ code <= 55295 THEN "continue"
    ELSE IF code >= 63744 /\ code <= 64975 THEN "continue"
    ELSE IF code >= 65008 /\ code <= 65533 THEN "continue"
    ELSE IF code >= 65536 /\ code <= 983039 THEN "continue"
    ELSE "reject"

isValidCustomElementName(localName) ==
    IF localName \in ReservedNames THEN FALSE
    ELSE IF Len(localName) < 2 THEN FALSE
    ELSE IF localName[1] < 97 \/ localName[1] > 122 THEN FALSE
    ELSE /\ \A i \in 2..Len(localName) : NameCharClass(localName[i]) # "reject"
         /\ \E i \in 2..Len(localName) : NameCharClass(localName[i]) = "hyphen"

(***************************************************************************)
(* The classes user code hands to define.  A class is known by its         *)
(* constructor; what its prototype declares is read by define.             *)
(***************************************************************************)
Classes == {"A", "B"}

ClassCallbacks(c) ==
    IF c = "A"
    THEN {CE_CALLBACK_CONNECTED, CE_CALLBACK_DISCONNECTED, CE_CALLBACK_ATTRIBUTE_CHANGED}
    ELSE {CE_CALLBACK_CONNECTED, CE_CALLBACK_ADOPTED}

ClassObservedAttributes(c) == IF c = "A" THEN {"p", "q"} ELSE {"p"}

VARIABLES
    readyState,     \* document.readyState: "loading" | "interactive" | "complete"
    definitions,    \* registry private state: definitions
    running,        \* registry private state: elementDefinitionIsRunning
    promiseMap,     \* registry private state: whenDefinedPromiseMap
    rstack,         \* installation.customElementsReactionStack
    backup,         \* installation.backupElementQueue
    processing,     \* installation.processingBackupElementQueue
    microtasks,     \* the microtask queue of $microtask
    el,             \* per element: the node and its private state record
    frames,         \* the JavaScript call stack
    rx,             \* history: every reaction ever created, with its fate
    reported,       \* history: number of errors passed to $utils.reportError
    ops,            \* number of operations of each kind user code has started
    last            \* history: what the most recent step did

vars == <<readyState, definitions, running, promiseMap, rstack, backup,
          processing, microtasks, el, frames, rx, reported, ops, last>>


(***************************************************************************)
(* The mutable program state as one record, so that the effect of a        *)
(* handler that calls several functions in sequence is the composition of  *)
(* their effects.  err is the name of an exception the code raises in the  *)
(* middle of such a sequence ("none" while it runs normally).              *)
(***************************************************************************)
St == [el |-> el, definitions |-> definitions, running |-> running,
       promiseMap |-> promiseMap, rstack |-> rstack, backup |-> backup,
       processing |-> processing, microtasks |-> microtasks, rx |-> rx,
       reported |-> reported, err |-> "none"]

Commit(S) ==
    /\ el' = S.el
    /\ definitions' = S.definitions
    /\ running' = S.running
    /\ promiseMap' = S.promiseMap
    /\ rstack' = S.rstack
    /\ backup' = S.backup
    /\ processing' = S.processing
    /\ microtasks' = S.microtasks
    /\ rx' = S.rx
    /\ reported' = S.reported

Front(s) == SubSeq(s, 1, Len(s) - 1)

Last(s) == s[Len(s)]

\* $utils.reportError(error)
reportError(S) == [S EXCEPT !.reported = @ + 1]

isCustom(S, e) == S.el[e].state = CE_STATE_CUSTOM

shouldNotUpgrade(state) == state = CE_STATE_CUSTOM \/ state = CE_STATE_FAILED

\* The first definition whose localName matches and whose name is the local
\* name or the is value; 0 when there is none (null).
lookupCustomElementDefinition(defs, localName, is) ==
    LET hits == {i \in 1..Len(defs) :
                    /\ defs[i].localName = localName
                    /\ (defs[i].name = localName \/ defs[i].name = is)}
    IN IF hits = {} THEN 0 ELSE CHOOSE i \in hits : \A j \in hits : i <= j

\* The microtask queued by enqueueElementOnAppropriateElementQueue.
BackupDrainTask == [kind |-> "drain", name |-> <<>>]

\* A variant that does not consult the processing flag and queues a
\* microtask for every element; single-flight scheduling must tell it from
\* enqueueElementOnAppropriateElementQueue.
enqueueElementAlwaysSchedules(S, e) ==
    IF Len(S.rstack) = 0
    THEN [S EXCEPT !.backup = Append(@, e),
                   !.processing = TRUE,
                   !.microtasks = Append(@, BackupDrainTask)]
    ELSE [S EXCEPT !.rstack[Len(S.rstack)] = Append(@, e)]

enqueueElementOnAppropriateElementQueue(S, e) ==
    IF Len(S.rstack) = 0
    THEN LET S1 == [S EXCEPT !.backup = Append(@, e)]
         IN IF S1.processing
            THEN S1
            ELSE [S1 EXCEPT !.processing = TRUE,
                            !.microtasks = Append(@, BackupDrainTask)]
    ELSE [S EXCEPT !.rstack[Len(S.rstack)] = Append(@, e)]

\* reactionQueue.push(reaction): the reaction gets the next identity, and the
\* history rx records it as pending.
PushReaction(S, e, r) ==
    LET id == Len(S.rx) + 1
    IN [S EXCEPT !.el[e].rq = Append(@, [r EXCEPT !.id = id]),
                 !.rx = Append(@, [e |-> e, st |-> "pending", type |-> r.type])]

enqueueCallbackReaction(S, e, callbackName, args) ==
    LET d == S.el[e].def
    IN IF d = 0 THEN [S EXCEPT !.err = "TypeError"]
       ELSE IF callbackName \notin S.definitions[d].lifecycleCallbacks THEN S
       ELSE IF /\ callbackName = CE_CALLBACK_ATTRIBUTE_CHANGED
               /\ args[1] \notin S.definitions[d].observedAttributes
            THEN S
       ELSE LET S1 == IF S.el[e].hasRQ THEN S
                      ELSE [S EXCEPT !.el[e].hasRQ = TRUE, !.el[e].rq = <<>>]
                r == [id |-> 0, type |-> callbackReactionType, def |-> d,
                      cb |-> callbackName, args |-> args]
            IN enqueueElementOnAppropriateElementQueue(PushReaction(S1, e, r), e)

enqueueUpgradeReaction(S, e, d) ==
    LET S1 == IF S.el[e].state = CE_STATE_UNCUSTOMIZED
              THEN [S EXCEPT !.el[e].state = CE_STATE_UNDEFINED,
                             !.el[e].hasRQ = TRUE, !.el[e].rq = <<>>]
              ELSE S
        S2 == [S1 EXCEPT !.el[e].def = d]
        r == [id |-> 0, type |-> upgradeReactionType, def |-> d,
              cb |-> "none", args |-> <<>>]
    IN IF ~S2.el[e].hasRQ THEN [S2 EXCEPT !.err = "TypeError"]
       ELSE enqueueElementOnAppropriateElementQueue(PushReaction(S2, e, r), e)

tryToUpgradeElement(S, e) ==
    IF S.el[e].state # CE_STATE_UNCUSTOMIZED /\ shouldNotUpgrade(S.el[e].state)
    THEN S
    ELSE LET d == lookupCustomElementDefinition(S.definitions, S.el[e].localName, <<>>)
         IN IF d # 0 THEN enqueueUpgradeReaction(S, e, d) ELSE S


(***************************************************************************)
(* Upgrade (upgradeElement) and the HTML element constructor.              *)
(***************************************************************************)
\* A construction stack holds elements and the marker, which is equal to no
\* element: the entry for element e is a number past the marker.
ElementEntry(e) == alreadyConstructedMarker + e

EntryElement(x) == x - alreadyConstructedMarker

constructionStackPush(S, d, e) ==
    [S EXCEPT !.definitions[d].constructionStack = Append(@, ElementEntry(e))]

constructionStackPop(S, d) ==
    [S EXCEPT !.definitions[d].constructionStack = Front(@)]

RECURSIVE SeedAttributes(_, _, _)
\* The loop over element.attributes of upgradeElement, from attribute i on.
SeedAttributes(S, e, i) ==
    IF i > Len(S.el[e].attrs) \/ S.err # "none" THEN S
    ELSE SeedAttributes(
             enqueueCallbackReaction(S, e, CE_CALLBACK_ATTRIBUTE_CHANGED,
                 <<S.el[e].attrs[i].name, "null", S.el[e].attrs[i].value, "null">>),
             e, i + 1)

SeedConnected(S, e) ==
    IF S.err = "none" /\ S.el[e].connected
    THEN enqueueCallbackReaction(S, e, CE_CALLBACK_CONNECTED, <<>>)
    ELSE S

\* upgradeElement returns at once for an element that is custom or failed.
UpgradeReturnsEarly(S, e) ==
    S.el[e].state # CE_STATE_UNCUSTOMIZED /\ shouldNotUpgrade(S.el[e].state)

\* upgradeElement from its start to the point where it calls the constructor.
upgradeElementBegin(S, e, d) ==
    LET S1 == IF S.el[e].state = CE_STATE_UNCUSTOMIZED
              THEN [S EXCEPT !.el[e].state = CE_STATE_UNDEFINED,
                             !.el[e].hasRQ = TRUE, !.el[e].rq = <<>>,
                             !.el[e].def = d]
              ELSE S
        S2 == SeedConnected(SeedAttributes(S1, e, 1), e)
    IN IF S2.err # "none" THEN S2
       ELSE [constructionStackPush(S2, d, e) EXCEPT !.el[e].runs = @ + 1]

\* reactionQueue.splice(0, reactionQueue.length): every pending reaction of
\* the element is dropped.
DiscardReactions(S, e) ==
    [S EXCEPT !.el[e].rq = <<>>,
              !.rx = [id \in 1..Len(S.rx) |->
                         IF \E k \in 1..Len(S.el[e].rq) : S.el[e].rq[k].id = id
                         THEN [S.rx[id] EXCEPT !.st = "discarded"]
                         ELSE S.rx[id]]]

\* A variant that keeps the reaction queue; the upgrade failure property must
\* tell it from upgradeElementCatch.
upgradeElementCatchKeepsQueue(S, e, d) ==
    constructionStackPop(
        [S EXCEPT !.el[e].state = CE_STATE_FAILED, !.el[e].def = 0,
                  !.el[e].everFailed = TRUE], d)

\* The catch block of upgradeElement, and the pop that follows it.
upgradeElementCatch(S, e, d) ==
    constructionStackPop(
        DiscardReactions([S EXCEPT !.el[e].state = CE_STATE_FAILED,
                                   !.el[e].def = 0,
                                   !.el[e].everFailed = TRUE], e), d)

\* A variant that forgets the pop when construction succeeds; the symmetry
\* of the construction stack must tell it from upgradeElementEnd.
upgradeElementEndNoPop(S, e, d) ==
    [S EXCEPT !.el[e].state = CE_STATE_CUSTOM]

\* The constructor returned the element: pop, and the state becomes custom.
upgradeElementEnd(S, e, d) ==
    [constructionStackPop(S, d) EXCEPT !.el[e].state = CE_STATE_CUSTOM]

\* The definition htmlConstructor finds for the class under construction.
ConstructorDefinition(defs, c) ==
    LET hits == {i \in 1..Len(defs) : defs[i].constructor = c}
    IN IF hits = {} THEN 0 ELSE CHOOSE i \in hits : \A j \in hits : i <= j

FreshElements(S) == {e \in Elements : ~S.el[e].exists}

FreshElement(S) == CHOOSE e \in FreshElements(S) : \A x \in FreshElements(S) : e <= x

\* The element htmlConstructor returns (0 when it throws).
htmlConstructorResult(S, c) ==
    LET d == ConstructorDefinition(S.definitions, c)
    IN IF d = 0 THEN 0
       ELSE LET cs == S.definitions[d].constructionStack
            IN IF Len(cs) = 0 THEN FreshElement(S)
               ELSE IF Last(cs) = alreadyConstructedMarker THEN 0
               ELSE EntryElement(Last(cs))

htmlConstructor(S, c) ==
    LET d == ConstructorDefinition(S.definitions, c)
    IN IF d = 0 THEN [S EXCEPT !.err = "TypeError"]
       ELSE LET cs == S.definitions[d].constructionStack
            IN IF Len(cs) = 0
               THEN [S EXCEPT !.el[FreshElement(S)] =
                        [exists |-> TRUE, localName |-> S.definitions[d].localName,
                         attrs |-> <<>>, connected |-> FALSE,
                         state |-> CE_STATE_CUSTOM, def |-> d,
                         hasRQ |-> FALSE, rq |-> <<>>, runs |-> 0,
                         everFailed |-> FALSE]]
               ELSE IF Last(cs) = alreadyConstructedMarker
               THEN [S EXCEPT !.err = "InvalidStateError"]
               ELSE [S EXCEPT !.definitions[d].constructionStack[Len(cs)] =
                                  alreadyConstructedMarker]

(***************************************************************************)
(* CustomElementRegistry.prototype.define, in the two parts that lie       *)
(* before and after the reading of the prototype (user code).              *)
(***************************************************************************)
\* A variant without the check of the name; the rejection of bad define
\* calls must tell it from DefineError.
DefineErrorAnyName(S, name, ctorOk, ext) ==
    IF ~ctorOk THEN "TypeError"
    ELSE IF ext # <<>> /\ isValidCustomElementName(ext) THEN "NotSupportedError"
    ELSE IF ext # <<>> THEN "ReferenceError"
    ELSE IF S.running THEN "NotSupportedError"
    ELSE "none"

\* The error define raises before it reads the prototype ("none": it goes on).
DefineError(S, name, ctorOk, ext) ==
    IF ~ctorOk THEN "TypeError"
    ELSE IF ~isValidCustomElementName(name) THEN "SyntaxError"
    ELSE IF ext # <<>> /\ isValidCustomElementName(ext) THEN "NotSupportedError"
    ELSE IF ext # <<>> THEN "ReferenceError"
    ELSE IF S.running THEN "NotSupportedError"
    ELSE "none"

\* The elements of the document in tree order.
TreeElements(S) == {e \in Elements : S.el[e].exists /\ S.el[e].connected}

\* A variant of the sweep that stops after the first element it enqueues;
\* the flush of define must tell it from Sweep.
SweepFirstOnly(S, d, localName, e) ==
    LET hits == {x \in TreeElements(S) : x >= e /\ S.el[x].localName = localName}
    IN IF hits = {} THEN S
       ELSE enqueueUpgradeReaction(S, CHOOSE x \in hits : \A y \in hits : x <= y, d)

RECURSIVE Sweep(_, _, _, _)
\* forEachShadowIncludingInclusiveDescendant(document, ...) of define, from
\* element e on; an exception ends it.
Sweep(S, d, localName, e) ==
    IF e > NumElements + NumFresh \/ S.err # "none" THEN S
    ELSE IF e \in TreeElements(S) /\ S.el[e].localName = localName
         THEN Sweep(enqueueUpgradeReaction(S, e, d), d, localName, e + 1)
         ELSE Sweep(S, d, localName, e + 1)

ResolveTask(name) == [kind |-> "resolve", name |-> name]

NewDefinition(name, c) ==
    [name |-> name, localName |-> name, constructor |-> c,
     observedAttributes |->
        IF CE_CALLBACK_ATTRIBUTE_CHANGED \in ClassCallbacks(c)
        THEN ClassObservedAttributes(c) ELSE {},
     lifecycleCallbacks |-> ClassCallbacks(c),
     constructionStack |-> <<>>]

\* A variant that never queues the microtask resolving the whenDefined
\* promise; the resolution of pending handles must tell it from DefineFinish.
DefineFinishNoResolve(S, name, c, rs) ==
    LET S1 == [S EXCEPT !.running = FALSE,
                        !.definitions = Append(@, NewDefinition(name, c))]
    IN IF rs # "loading" THEN Sweep(S1, Len(S1.definitions), name, 1) ELSE S1

\* define from the clearing of the running flag to the end of its body.
DefineFinish(S, name, c, rs) ==
    LET S1 == [S EXCEPT !.running = FALSE,
                        !.definitions = Append(@, NewDefinition(name, c))]
        d == Len(S1.definitions)
        S2 == IF rs # "loading" THEN Sweep(S1, d, name, 1) ELSE S1
    IN IF S2.err # "none" THEN S2
       ELSE IF S2.promiseMap[name].entry = "pending"
            THEN [S2 EXCEPT !.microtasks = Append(@, ResolveTask(name))]
            ELSE S2

\* CustomElementRegistry.prototype.get
get(defs, name) ==
    LET hits == {i \in 1..Len(defs) : defs[i].name = name}
    IN IF hits = {} THEN "undefined"
       ELSE defs[CHOOSE i \in hits : \A j \in hits : i <= j].constructor

\* CustomElementRegistry.prototype.whenDefined: the error it raises.
WhenDefinedError(name) ==
    IF ~isValidCustomElementName(name) THEN "SyntaxError" ELSE "none"

\* whenDefined for a valid name: "resolved" (a new resolved promise) or
\* "entry" (the promise of the map entry, created when there is none).
WhenDefinedResult(S, name) ==
    IF \E i \in 1..Len(S.definitions) : S.definitions[i].name = name
    THEN "resolved" ELSE "entry"

\* A variant that makes a new promise on every call for an undefined name;
\* the single pending handle must tell it from whenDefined.
whenDefinedAlwaysNew(S, name) ==
    IF WhenDefinedError(name) # "none" THEN [S EXCEPT !.err = "SyntaxError"]
    ELSE IF WhenDefinedResult(S, name) = "resolved" THEN S
    ELSE [S EXCEPT !.promiseMap[name] =
             [entry |-> "pending", made |-> @.made + 1, resolved |-> FALSE]]

whenDefined(S, name) ==
    IF WhenDefinedError(name) # "none" THEN [S EXCEPT !.err = "SyntaxError"]
    ELSE IF WhenDefinedResult(S, name) = "resolved" THEN S
    ELSE IF S.promiseMap[name].entry # "pending"
         THEN [S EXCEPT !.promiseMap[name] =
                  [entry |-> "pending", made |-> @.made + 1, resolved |-> FALSE]]
         ELSE S


(***************************************************************************)
(* The steps registered with the tree collaborator ($dom.register...).     *)
(***************************************************************************)
InsertingSteps(S, e) ==
    IF S.el[e].connected
    THEN IF isCustom(S, e)
         THEN enqueueCallbackReaction(S, e, CE_CALLBACK_CONNECTED, <<>>)
         ELSE tryToUpgradeElement(S, e)
    ELSE S

RemovingSteps(S, e) ==
    IF isCustom(S, e)
    THEN enqueueCallbackReaction(S, e, CE_CALLBACK_DISCONNECTED, <<>>)
    ELSE S

AdoptingSteps(S, e) ==
    IF isCustom(S, e)
    THEN enqueueCallbackReaction(S, e, CE_CALLBACK_ADOPTED, <<"oldDocument", "newDocument">>)
    ELSE S

CloningSteps(S, e) == tryToUpgradeElement(S, e)

AttributeChangeSteps(S, e, localName, oldValue, newValue) ==
    IF isCustom(S, e)
    THEN enqueueCallbackReaction(S, e, CE_CALLBACK_ATTRIBUTE_CHANGED,
                                 <<localName, oldValue, newValue, "null">>)
    ELSE S

(***************************************************************************)
(* The call stack.  A frame is                                             *)
(*   task     a script run by the event loop (user code)                   *)
(*   work     executeCEReactions(callback): pc "callback" while the        *)
(*            callback (user code) runs, "invoke" while the popped queue   *)
(*            is drained; i = depth of the reaction stack before the call  *)
(*   define   define: pc "reading" while the getters of the prototype      *)
(*            (user code) run, "invoke" while executeCEReactions drains    *)
(*   cb       a lifecycle callback invoked by invokeReactions (user code)  *)
(*   ctor     a constructor (user code): d # 0 when upgradeElement called  *)
(*            it for element e; i is the element super() returned          *)
(*   invoke   invokeReactions(queue) at index i; pc "backup" when the      *)
(*            queue is the backup element queue, else q is the queue       *)
(*   drain    the microtask of enqueueElementOnAppropriateElementQueue     *)
(*   initial  performInitialUpgrades over the elements q, at index i       *)
(***************************************************************************)
Fr(k, pc, e, d, c, i, q, n) ==
    [k |-> k, pc |-> pc, e |-> e, d |-> d, c |-> c, i |-> i, q |-> q, n |-> n,
     a |-> <<>>]

\* The frame of a define call remembers the arguments of the call.
WithArguments(r, a) == [r EXCEPT !.a = a]

\* What the last step did: ev the event, e / d the element and definition it
\* concerns, n the number of reactions created before it, k the depth of the
\* reaction stack it refers to, v and w its outcome, a the arguments of the
\* registry method the step called or ended (<<>> when it is no such step).
Ev(ev, e, d, n, k, v, w) ==
    [ev |-> ev, e |-> e, d |-> d, n |-> n, k |-> k, v |-> v, w |-> w, u |-> "none",
     kind |-> "none", a |-> <<>>]

\* A call of executeCEReactions (kind "work") or define (kind "define") ended:
\* lo / hi the number of reactions created before the call and before its
\* callback ended, depth the depth of the reaction stack before the call,
\* outcome "return" or the error raised, ret the value returned and cbv the
\* value the callback had returned.
EvExit(kind, lo, hi, depth, outcome, ret, cbv) ==
    [ev |-> "exit", e |-> 0, d |-> hi, n |-> lo, k |-> depth, v |-> outcome,
     w |-> ret, u |-> cbv, kind |-> kind, a |-> <<>>]

Top == Last(frames)

UserCode(f) ==
    \/ f.k \in {"task", "cb"}
    \/ f.k = "ctor" /\ f.pc = "body"
    \/ f.k = "work" /\ f.pc = "callback"
    \/ f.k = "define" /\ f.pc = "reading"

\* User code that is not a getter read by define.
Script(f) == UserCode(f) /\ f.k # "define"

\* A variant that swallows the error; error isolation must tell it from
\* invokeReactionsCatch.
invokeReactionsCatchSilent(S) == S

\* catch (error) { $utils.reportError(error); } of invokeReactions
invokeReactionsCatch(S) == reportError(S)

RECURSIVE Unwind(_, _)
\* An exception reaches the frame on top of fr from the call it made.
\* to: "reported" (caught by invokeReactions), "user" (it is thrown into user
\* code, which goes on), "uncaught" (it leaves the task).
Unwind(S, fr) ==
    IF fr = <<>> THEN [S |-> S, fr |-> fr, to |-> "uncaught"]
    ELSE IF Last(fr).k = "invoke"
         THEN [S |-> invokeReactionsCatch(S), fr |-> fr, to |-> "reported"]
    ELSE IF UserCode(Last(fr)) THEN [S |-> S, fr |-> fr, to |-> "user"]
    ELSE Unwind(S, Front(fr))

\* executeCEReactions when callback() throws: nothing of it runs any more.
executeCEReactionsThrow(S) == S

\* A variant in which define has no catch around the reading of the
\* prototype, so that the running flag stays set when a getter throws.
ThrowFromKeepsFlag(S, fr) ==
    LET f == Last(fr)
        below == Front(fr)
    IN IF f.k = "ctor" /\ f.d # 0
       THEN Unwind(upgradeElementCatch(S, f.e, f.d), below)
       ELSE Unwind(executeCEReactionsThrow(S), below)

\* The user code on top of fr throws.
ThrowFrom(S, fr) ==
    LET f == Last(fr)
        below == Front(fr)
    IN IF f.k = "ctor" /\ f.d # 0
       THEN Unwind(upgradeElementCatch(S, f.e, f.d), below)
       ELSE IF f.k = "define"
       THEN Unwind(executeCEReactionsThrow([S EXCEPT !.running = FALSE]), below)
       ELSE IF f.k = "work"
       THEN Unwind(executeCEReactionsThrow(S), below)
       ELSE Unwind(S, below)

\* stack.pop() of executeCEReactions
ReactionStackPop(S) == [S EXCEPT !.rstack = Front(@)]

RECURSIVE NextIndex(_, _, _)
\* The for loop of invokeReactions passes the elements with no reaction.
NextIndex(S, q, i) ==
    IF i > Len(q) THEN i
    ELSE IF S.el[q[i]].rq # <<>> THEN i
    ELSE NextIndex(S, q, i + 1)

\* A variant that takes the newest reaction; the FIFO property must tell it
\* from SplicedOut.
SplicedOutFromBack(rq) == rq[Len(rq)]

\* reactions.splice(0, 1): the reaction taken, and the queue left.
SplicedOut(rq) == Head(rq)

SpliceRest(rq) == Tail(rq)

TakeReaction(S, e) ==
    LET r == SplicedOut(S.el[e].rq)
    IN [S EXCEPT !.el[e].rq = SpliceRest(@),
                 !.rx[r.id].st = IF @ = "pending" THEN "invoked" ELSE "again"]

RECURSIVE Ordered(_, _)
\* The elements of set s from e on, in increasing (tree) order.
Ordered(s, e) ==
    IF e > NumElements + NumFresh THEN <<>>
    ELSE IF e \in s THEN <<e>> \o Ordered(s, e + 1)
    ELSE Ordered(s, e + 1)

(***************************************************************************)
(* The document at installation.                                           *)
(***************************************************************************)
InitialAttributes(e) ==
    IF e % 3 = 1 THEN <<[name |-> "p", value |-> "v1"], [name |-> "q", value |-> "v1"]>>
    ELSE IF e % 3 = 2 THEN <<[name |-> "p", value |-> "v1"]>>
    ELSE <<>>

InitialElement(e) ==
    [exists |-> e <= NumElements, localName |-> NameXA,
     attrs |-> IF e <= NumElements THEN InitialAttributes(e) ELSE <<>>,
     connected |-> e <= NumElements /\ e % 3 # 0,
     state |-> CE_STATE_UNCUSTOMIZED, def |-> 0, hasRQ |-> FALSE, rq |-> <<>>,
     runs |-> 0, everFailed |-> FALSE]

DefineNames == {NameXA, NameXB, NameDiv}

\* The arguments user code passes to define: name, class, whether the
\* constructor is its prototype's constructor, and options.extends (<<>>: none).
DefineArguments ==
    { <<NameXA, "A", TRUE, <<>>>>, <<NameXA, "B", TRUE, <<>>>>,
      <<NameXB, "B", TRUE, <<>>>>, <<NameDiv, "A", TRUE, <<>>>>,
      <<NameXB, "A", FALSE, <<>>>>, <<NameXB, "A", TRUE, NameDiv>>,
      <<NameXB, "A", TRUE, NameXA>> }

Init ==
    /\ readyState \in {"loading", "complete"}
    /\ definitions = <<>>
    /\ running = FALSE
    /\ promiseMap = [nm \in DefineNames |->
                        [entry |-> "absent", made |-> 0, resolved |-> FALSE]]
    /\ rstack = <<>>
    /\ backup = <<>>
    /\ processing = FALSE
    /\ microtasks = <<>>
    /\ el = [e \in Elements |-> InitialElement(e)]
    /\ frames = <<>>
    /\ rx = <<>>
    /\ reported = 0
    /\ ops = [define |-> 0, hook |-> 0, call |-> 0, whenDefined |-> 0]
    /\ last = Ev("install", 0, 0, 0, 0, "none", "none")


(***************************************************************************)
(* Operations of user code: the tree collaborator mutates the tree and     *)
(* runs the registered steps.                                              *)
(***************************************************************************)
Budget == [define |-> MaxDefines, hook |-> MaxHooks, call |-> MaxCalls,
           whenDefined |-> MaxWhenDefined]

CanOp(kind) == frames # <<>> /\ UserCode(Top) /\ ops[kind] < Budget[kind]

CanCall(kind) == CanOp(kind) /\ Len(frames) < MaxDepth

Spend(kind) == ops' = [ops EXCEPT ![kind] = @ + 1]

Hook(S, kind, e) ==
    /\ Commit([S EXCEPT !.err = "none"])
    /\ Spend("hook")
    /\ last' = [Ev("hook", e, 0, Len(rx), Len(rstack), kind, el[e].state)
                    EXCEPT !.u = S.err]
    /\ UNCHANGED <<frames, readyState>>

OnInserted(e) ==
    /\ CanOp("hook") /\ Script(Top)
    /\ el[e].exists /\ ~el[e].connected
    /\ Hook(InsertingSteps([St EXCEPT !.el[e].connected = TRUE], e), "inserted", e)

OnRemoved(e) ==
    /\ CanOp("hook") /\ Script(Top)
    /\ el[e].exists /\ el[e].connected
    /\ Hook(RemovingSteps([St EXCEPT !.el[e].connected = FALSE], e), "removed", e)

OnAdopted(e) ==
    /\ CanOp("hook") /\ Script(Top)
    /\ el[e].exists
    /\ Hook(AdoptingSteps(St, e), "adopted", e)

OnCloned(e) ==
    /\ CanOp("hook") /\ Script(Top)
    /\ el[e].exists
    /\ Hook(CloningSteps(St, e), "cloned", e)

AttributeIndex(attrs, name) ==
    LET hits == {i \in 1..Len(attrs) : attrs[i].name = name}
    IN IF hits = {} THEN 0 ELSE CHOOSE i \in hits : TRUE

\* element.setAttribute(name, value), the value being one the attribute does
\* not have.
OnAttributeChanged(e, name) ==
    /\ CanOp("hook") /\ Script(Top)
    /\ el[e].exists
    /\ LET i == AttributeIndex(el[e].attrs, name)
           old == IF i = 0 THEN "null" ELSE el[e].attrs[i].value
           new == IF old = "v1" THEN "v2" ELSE "v1"
           S1 == IF i = 0
                 THEN [St EXCEPT !.el[e].attrs = Append(@, [name |-> name, value |-> new])]
                 ELSE [St EXCEPT !.el[e].attrs[i].value = new]
       IN Hook(AttributeChangeSteps(S1, e, name, old, new), "attribute", e)

(***************************************************************************)
(* Calls user code makes into the module.                                  *)
(***************************************************************************)
\* The landing of an exception: the program state and the call stack after it.
Land(u, ev) ==
    /\ Commit([u.S EXCEPT !.err = "none"])
    /\ frames' = u.fr
    /\ last' = ev

\* new definition.constructor on top of the call stack fr: the constructor
\* (user code) starts with super(), which runs htmlConstructor.  d # 0 when
\* upgradeElement makes the call for element e.
Construct(S, fr, e, d, c, ev) ==
    LET f == Fr("ctor", "body", e, d, c, htmlConstructorResult(S, c), <<>>, Len(rx))
        S1 == htmlConstructor(S, c)
        u == ThrowFrom(S, Append(fr, f))
    IN IF S1.err # "none"
       THEN Land(u, Ev(IF d # 0 THEN "upgrade-failed" ELSE "threw", e, d,
                       Len(rx), reported, S1.err, u.to))
       ELSE /\ Commit(S1)
            /\ frames' = Append(fr, f)
            /\ last' = ev

\* htmlConstructor would have to create an element.
NeedsFresh(S, c) ==
    LET d == ConstructorDefinition(S.definitions, c)
    IN d # 0 /\ S.definitions[d].constructionStack = <<>>

\* executeCEReactions(callback) up to the call of callback.
ScopeCall ==
    /\ CanCall("call") /\ Script(Top)
    /\ rstack' = Append(rstack, <<>>)
    /\ frames' = Append(frames, Fr("work", "callback", 0, 0, "none", Len(rstack), <<>>, Len(rx)))
    /\ Spend("call")
    /\ last' = Ev("call", 0, 0, Len(rx), Len(rstack), "executeCEReactions", "none")
    /\ UNCHANGED <<readyState, definitions, running, promiseMap, backup,
                   processing, microtasks, el, rx, reported>>

\* define(name, constructor, options) up to the reading of the prototype.
DefineCall(name, c, ctorOk, ext) ==
    /\ CanCall("define")
    /\ LET S1 == [St EXCEPT !.rstack = Append(@, <<>>)]
           err == DefineError(S1, name, ctorOk, ext)
       IN IF err # "none"
          THEN /\ Commit(executeCEReactionsThrow(S1))
               /\ frames' = frames
               /\ last' = WithArguments(
                      EvExit("define", Len(rx), Len(rx), Len(rstack), err, "none", "none"),
                      <<name, c, ctorOk, ext>>)
          ELSE /\ Commit([S1 EXCEPT !.running = TRUE])
               /\ frames' = Append(frames, WithArguments(
                      Fr("define", "reading", 0, 0, c, Len(rstack), name, Len(rx)),
                      <<name, c, ctorOk, ext>>))
               /\ last' = WithArguments(
                      Ev("call", 0, 0, Len(rx), Len(rstack), "define", "none"),
                      <<name, c, ctorOk, ext>>)
    /\ Spend("define")
    /\ UNCHANGED <<readyState>>

WhenDefinedCall(name) ==
    /\ CanOp("whenDefined") /\ Script(Top)
    /\ LET S1 == whenDefined(St, name)
       IN /\ Commit([S1 EXCEPT !.err = "none"])
          /\ last' = WithArguments(
                 Ev("whenDefined", 0, 0, Len(rx), Len(rstack),
                    IF S1.err # "none" THEN S1.err ELSE WhenDefinedResult(St, name),
                    promiseMap[name].entry),
                 <<name>>)
    /\ Spend("whenDefined")
    /\ UNCHANGED <<frames, readyState>>

\* new C() in user code.
NewCall(c) ==
    /\ CanCall("call") /\ Script(Top)
    /\ NeedsFresh(St, c) => FreshElements(St) # {}
    /\ Construct(St, frames, 0, 0, c,
                 Ev("new", htmlConstructorResult(St, c), 0, Len(rx), Len(rstack), "none", "none"))
    /\ Spend("call")
    /\ UNCHANGED <<readyState>>

\* User code throws.
Throw ==
    /\ frames # <<>> /\ UserCode(Top)
    /\ LET u == ThrowFrom(St, frames)
       IN Land(u, CASE Top.k = "ctor" /\ Top.d # 0 ->
                         Ev("upgrade-failed", Top.e, Top.d, Len(rx), reported, "Error", u.to)
                    [] Top.k = "cb" ->
                         Ev("callback-threw", Top.e, Top.d, Len(rx), reported, "Error", u.to)
                    [] Top.k \in {"work", "define"} ->
                         WithArguments(
                             EvExit(Top.k, Top.n, Len(rx), Top.i, "Error", "none", "none"),
                             Top.a)
                    [] OTHER ->
                         Ev("threw", 0, 0, Len(rx), reported, "Error", u.to))
    /\ UNCHANGED <<readyState, ops>>

(***************************************************************************)
(* Returns of user code, and what the caller does next.                    *)
(***************************************************************************)
TaskReturn ==
    /\ frames # <<>> /\ Top.k = "task"
    /\ frames' = <<>>
    /\ last' = Ev("task-end", 0, 0, Len(rx), Len(rstack), "return", "none")
    /\ UNCHANGED <<readyState, definitions, running, promiseMap, rstack, backup,
                   processing, microtasks, el, rx, reported, ops>>

CallbackReturn ==
    /\ frames # <<>> /\ Top.k = "cb"
    /\ frames' = Front(frames)
    /\ last' = Ev("callback-end", Top.e, Top.d, Len(rx), Len(rstack), "return", "none")
    /\ UNCHANGED <<readyState, definitions, running, promiseMap, rstack, backup,
                   processing, microtasks, el, rx, reported, ops>>

\* The constructor returns: this ("this") or another object ("other").  In
\* upgradeElement the result is compared with the element.
CtorReturn(v) ==
    /\ frames # <<>> /\ Top.k = "ctor"
    /\ IF Top.d = 0
       THEN /\ frames' = Front(frames)
            /\ last' = Ev("new-end", Top.i, 0, Len(rx), Len(rstack), v, "none")
            /\ UNCHANGED <<definitions, running, promiseMap, rstack, backup,
                           processing, microtasks, el, rx, reported>>
       ELSE IF v = "this" /\ Top.i = Top.e
       THEN /\ Commit(upgradeElementEnd(St, Top.e, Top.d))
            /\ frames' = Front(frames)
            /\ last' = Ev("upgraded", Top.e, Top.d, Len(rx), reported, v, "none")
       ELSE LET u == ThrowFrom(St, frames)
            IN Land(u, Ev("upgrade-failed", Top.e, Top.d, Len(rx), reported,
                          "InvalidStateError", u.to))
    /\ UNCHANGED <<readyState, ops>>

WorkValues == {"undefined", "value"}

\* const result = callback(); the value executeCEReactions returns later.
executeCEReactionsResult(f) == f.c

\* callback() returned in executeCEReactions: invokeReactions(stack.pop()).
WorkReturn(v) ==
    /\ frames # <<>> /\ Top.k = "work" /\ Top.pc = "callback"
    /\ Commit(ReactionStackPop(St))
    /\ frames' = Front(frames)
                 \o <<[Top EXCEPT !.pc = "invoke", !.c = v, !.q = <<v>>, !.d = Len(rx)]>>
                 \o <<Fr("invoke", "local", 0, 0, "none", 1, Last(rstack), Len(rx))>>
    /\ last' = Ev("flush", 0, 0, Len(rx), Len(rstack), v, "work")
    /\ UNCHANGED <<readyState, ops>>

\* The prototype has been read: define goes on to the end of its body, and
\* executeCEReactions drains the queue it pops.
GetterReturn ==
    /\ frames # <<>> /\ Top.k = "define" /\ Top.pc = "reading"
    /\ LET S1 == DefineFinish(St, Top.q, Top.c, readyState)
       IN IF S1.err # "none"
          THEN Land(Unwind(executeCEReactionsThrow(S1), Front(frames)),
                    WithArguments(
                        EvExit("define", Top.n, Len(S1.rx), Top.i, S1.err, "none", "none"),
                        Top.a))
          ELSE /\ Commit(ReactionStackPop(S1))
               /\ frames' = Front(frames)
                    \o <<[Top EXCEPT !.pc = "invoke", !.c = "undefined",
                                     !.q = <<"undefined">>, !.d = Len(S1.rx)]>>
                    \o <<Fr("invoke", "local", 0, 0, "none", 1, Last(S1.rstack), Len(S1.rx))>>
               /\ last' = WithArguments(
                      Ev("flush", 0, Len(S1.definitions), Len(rx), Len(rstack),
                         "undefined", "define"),
                      Top.a)
    /\ UNCHANGED <<readyState, ops>>

(***************************************************************************)
(* invokeReactions.                                                        *)
(***************************************************************************)
InvokeQueue(f) == IF f.pc = "backup" THEN backup ELSE f.q

\* One pass of the while loop: the front reaction of the next element that
\* has one is taken and invoked.
InvokeReaction ==
    /\ frames # <<>> /\ Top.k = "invoke"
    /\ LET q == InvokeQueue(Top)
           j == NextIndex(St, q, Top.i)
       IN /\ j <= Len(q)
          /\ LET e == q[j]
                 r == SplicedOut(el[e].rq)
                 S1 == TakeReaction(St, e)
                 here == [frames EXCEPT ![Len(frames)].i = j]
             IN IF r.type = callbackReactionType
                THEN /\ Commit(S1)
                     /\ frames' = Append(here, Fr("cb", "body", e, r.def, r.cb, 0, r.args, Len(rx)))
                     /\ last' = Ev("callback", e, r.def, r.id, Len(rstack), el[e].state, r.cb)
                ELSE IF UpgradeReturnsEarly(S1, e)
                THEN /\ Commit(S1)
                     /\ frames' = here
                     /\ last' = Ev("upgrade-skip", e, r.def, r.id, Len(rstack), el[e].state, "none")
                ELSE LET S2 == upgradeElementBegin(S1, e, r.def)
                     IN IF S2.err # "none"
                        THEN Land(Unwind(S2, here),
                                  Ev("upgrade-error", e, r.def, r.id, reported, S2.err, "reported"))
                        ELSE /\ NeedsFresh(S2, definitions[r.def].constructor)
                                    => FreshElements(S2) # {}
                             /\ Construct(S2, here, e, r.def, definitions[r.def].constructor,
                                    Ev("upgrade", e, r.def, Len(rx), Len(rstack),
                                       el[e].state, "reaction"))
    /\ UNCHANGED <<readyState, ops>>

\* The for loop has passed the end of the queue: invokeReactions returns, and
\* so does its caller (executeCEReactions, or the microtask, which unsets
\* the processing flag).
InvokeDone ==
    /\ frames # <<>> /\ Top.k = "invoke"
    /\ NextIndex(St, InvokeQueue(Top), Top.i) > Len(InvokeQueue(Top))
    /\ LET below == frames[Len(frames) - 1]
       IN IF below.k = "drain"
          THEN /\ processing' = FALSE
               /\ last' = Ev("drained", 0, below.n, Len(rx), Len(rstack), "none", "none")
          ELSE /\ processing' = processing
               /\ last' = WithArguments(
                      EvExit(below.k, below.n, below.d, below.i, "return",
                             executeCEReactionsResult(below), Head(below.q)),
                      below.a)
    /\ frames' = Front(Front(frames))
    /\ UNCHANGED <<readyState, definitions, running, promiseMap, rstack, backup,
                   microtasks, el, rx, reported, ops>>

(***************************************************************************)
(* The event loop.                                                         *)
(***************************************************************************)
\* A script starts when nothing runs and no microtask is queued.
TaskStart ==
    /\ frames = <<>> /\ microtasks = <<>>
    /\ \E kind \in {"define", "hook", "call"} : ops[kind] < Budget[kind]
    /\ frames' = <<Fr("task", "body", 0, 0, "none", 0, <<>>, Len(rx))>>
    /\ last' = Ev("task", 0, 0, Len(rx), Len(rstack), "none", "none")
    /\ UNCHANGED <<readyState, definitions, running, promiseMap, rstack, backup,
                   processing, microtasks, el, rx, reported, ops>>

\* The microtask checkpoint: the oldest microtask runs.
MicrotaskRun ==
    /\ frames = <<>> /\ microtasks # <<>>
    /\ microtasks' = Tail(microtasks)
    /\ IF Head(microtasks).kind = "drain"
       THEN /\ frames' = <<Fr("drain", "body", 0, 0, "none", 0, <<>>, Len(rx)),
                           Fr("invoke", "backup", 0, 0, "none", 1, <<>>, Len(rx))>>
            /\ promiseMap' = promiseMap
            /\ last' = Ev("drain", 0, 0, Len(rx), Len(rstack), "none", "none")
       ELSE /\ frames' = frames
            /\ promiseMap' = [promiseMap EXCEPT ![Head(microtasks).name] =
                                 [@ EXCEPT !.entry = "null", !.resolved = TRUE]]
            /\ last' = Ev("resolved", 0, 0, Len(rx), Len(rstack), "none", "none")
    /\ UNCHANGED <<readyState, definitions, running, rstack, backup, processing,
                   el, rx, reported, ops>>

\* DOMContentLoaded: the listener install registered runs performInitialUpgrades.
DOMContentLoaded ==
    /\ frames = <<>> /\ microtasks = <<>> /\ readyState = "loading"
    /\ readyState' = "interactive"
    /\ frames' = <<Fr("initial", "body", 0, 0, "none", 1, Ordered(TreeElements(St), 1), Len(rx))>>
    /\ last' = Ev("DOMContentLoaded", 0, 0, Len(rx), Len(rstack), "none", "none")
    /\ UNCHANGED <<definitions, running, promiseMap, rstack, backup, processing,
                   microtasks, el, rx, reported, ops>>

\* elements.forEach(tryToUpgradeElementSync): the next element.
InitialStep ==
    /\ frames # <<>> /\ Top.k = "initial"
    /\ IF Top.i > Len(Top.q)
       THEN /\ frames' = Front(frames)
            /\ last' = Ev("initial-end", 0, 0, Len(rx), Len(rstack), "none", "none")
            /\ UNCHANGED <<definitions, running, promiseMap, rstack, backup,
                           processing, microtasks, el, rx, reported>>
       ELSE LET e == Top.q[Top.i]
                d == lookupCustomElementDefinition(definitions, el[e].localName, <<>>)
                here == [frames EXCEPT ![Len(frames)].i = Top.i + 1]
            IN IF UpgradeReturnsEarly(St, e) \/ d = 0
               THEN /\ frames' = here
                    /\ last' = Ev("upgrade-skip", e, d, Len(rx), Len(rstack), el[e].state, "sync")
                    /\ UNCHANGED <<definitions, running, promiseMap, rstack, backup,
                                   processing, microtasks, el, rx, reported>>
               ELSE /\ NeedsFresh(upgradeElementBegin(St, e, d), definitions[d].constructor)
                           => FreshElements(St) # {}
                    /\ Construct(upgradeElementBegin(St, e, d), here, e, d,
                           definitions[d].constructor,
                           Ev("upgrade", e, d, Len(rx), Len(rstack), el[e].state, "sync"))
    /\ UNCHANGED <<readyState, ops>>

(***************************************************************************)
(* User code is arbitrary.  Each specification lets it draw its operations *)
(* from one family: the define calls it makes, the tree mutations it       *)
(* causes, and the other calls it makes.  The steps of the module itself   *)
(* (System) are the same in all of them.                                   *)
(***************************************************************************)
System ==
    \/ Throw
    \/ TaskReturn
    \/ CallbackReturn
    \/ \E v \in {"this", "other"} : CtorReturn(v)
    \/ GetterReturn
    \/ InvokeReaction
    \/ InvokeDone
    \/ TaskStart
    \/ MicrotaskRun
    \/ DOMContentLoaded
    \/ InitialStep

\* Reaction queues: scopes, failing and succeeding define calls, attribute
\* changes, elements removed.
QueueDefines == {<<NameXA, "A", TRUE, <<>>>>, <<NameDiv, "A", TRUE, <<>>>>}

NextQueues ==
    \/ \E e \in Elements : OnAttributeChanged(e, "p")
    \/ \E e \in Elements : OnRemoved(e)
    \/ ScopeCall
    \/ \E v \in WorkValues : WorkReturn(v)
    \/ \E a \in QueueDefines : DefineCall(a[1], a[2], a[3], a[4])
    \/ System

SpecQueues == Init /\ [][NextQueues]_vars

\* Upgrades: two classes defined under one name, elements cloned and
\* inserted, constructors called directly.
UpgradeDefines == {<<NameXA, "A", TRUE, <<>>>>, <<NameXA, "B", TRUE, <<>>>>}

NextUpgrades ==
    \/ \E e \in Elements : OnInserted(e)
    \/ \E e \in Elements : OnCloned(e)
    \/ \E a \in UpgradeDefines : DefineCall(a[1], a[2], a[3], a[4])
    \/ \E c \in Classes : NewCall(c)
    \/ System

SpecUpgrades == Init /\ [][NextUpgrades]_vars

\* The registry: every kind of define call, whenDefined, elements adopted.
NextRegistry ==
    \/ \E e \in Elements : OnAdopted(e)
    \/ \E a \in DefineArguments : DefineCall(a[1], a[2], a[3], a[4])
    \/ \E nm \in DefineNames : WhenDefinedCall(nm)
    \/ System

SpecRegistry == Init /\ [][NextRegistry]_vars

\* Nested scopes: constructors and callbacks that call executeCEReactions
\* and clone elements, under one definition.
NestedDefines == {<<NameXA, "A", TRUE, <<>>>>}

NextNested ==
    \/ \E e \in Elements : OnCloned(e)
    \/ ScopeCall
    \/ \E v \in WorkValues : WorkReturn(v)
    \/ \E a \in NestedDefines : DefineCall(a[1], a[2], a[3], a[4])
    \/ System

SpecNested == Init /\ [][NextNested]_vars

(***************************************************************************)
(* The name validator on its own.  A candidate name is a sequence of       *)
(* characters (code points); the JavaScript string the validator receives  *)
(* holds its UTF-16 code units, which is what length and charCodeAt see.   *)
(***************************************************************************)
MaxNameLength == 3  \* characters of a candidate name

\* - . 0 A _ a x, U+00B7, U+00D7 (between two ranges), U+203F, U+10000
NameCharacters == {45, 46, 48, 65, 95, 97, 120, 183, 215, 8255, 65536}

\* The code units of one character in a JavaScript string.
CodeUnits(cp) ==
    IF cp < 65536 THEN <<cp>>
    ELSE <<55296 + ((cp - 65536) \div 1024), 56320 + ((cp - 65536) % 1024)>>

RECURSIVE ToCodeUnits(_)
ToCodeUnits(cps) ==
    IF cps = <<>> THEN <<>> ELSE CodeUnits(Head(cps)) \o ToCodeUnits(Tail(cps))

Candidates ==
    UNION {[1..n -> NameCharacters] : n \in 0..MaxNameLength} \cup ReservedNames

InitNames ==
    /\ readyState = "complete"
    /\ definitions = <<>>
    /\ running = FALSE
    /\ promiseMap = [nm \in DefineNames |->
                        [entry |-> "absent", made |-> 0, resolved |-> FALSE]]
    /\ rstack = <<>>
    /\ backup = <<>>
    /\ processing = FALSE
    /\ microtasks = <<>>
    /\ el = [e \in Elements |-> InitialElement(e)]
    /\ frames = <<>>
    /\ rx = <<>>
    /\ reported = 0
    /\ ops = [define |-> 0, hook |-> 0, call |-> 0, whenDefined |-> 0]
    /\ \E cps \in Candidates :
           last = WithArguments(Ev("candidate", 0, 0, 0, 0, "none", "none"), <<cps>>)

\* isValidCustomElementName(localName) is called with the candidate.
ValidateName ==
    /\ last.ev = "candidate"
    /\ last' = WithArguments(
           Ev("isValidCustomElementName", 0, 0, 0, 0,
              IF isValidCustomElementName(ToCodeUnits(last.a[1])) THEN "true" ELSE "false",
              "none"),
           last.a)
    /\ UNCHANGED <<readyState, definitions, running, promiseMap, rstack, backup,
                   processing, microtasks, el, frames, rx, reported, ops>>

NextNames == ValidateName

SpecNames == InitNames /\ [][NextNames]_vars

(***************************************************************************)
(* Properties of the reaction queues.                                      *)
(***************************************************************************)
\* A call of executeCEReactions is in progress.
ScopeInProgress == \E i \in 1..Len(frames) : frames[i].k \in {"work", "define"}

Settled(id) == rx[id].st \in {"invoked", "discarded"}

\* C1: when executeCEReactions(work) returns after work returned normally,
\* every reaction enqueued while work ran has been invoked or discarded, and
\* the value returned is the value work returned.
C1_ScopeFlushesItsReactions ==
    (last.ev = "exit" /\ last.kind = "work" /\ last.v = "return") =>
        /\ \A id \in (last.n + 1)..last.d : Settled(id)
        /\ last.w = last.u

\* C2: when a call of executeCEReactions (by user code or by define) ends,
\* by a return or by an error, the reaction stack is as deep as before the
\* call; the stack is empty whenever no such call is in progress.
C2_StackRestored ==
    /\ last.ev = "exit" => Len(rstack) = last.k
    /\ ~ScopeInProgress => rstack = <<>>

\* C3: no reaction is invoked twice, and once nothing runs and no microtask
\* is queued every reaction has been invoked or discarded.
C3_EveryReactionSettles ==
    /\ \A id \in 1..Len(rx) : rx[id].st # "again"
    /\ (frames = <<>> /\ microtasks = <<>>) => \A id \in 1..Len(rx) : Settled(id)

\* C4: when the microtask that drains the backup element queue completes, no
\* element on the backup element queue has a reaction left.
C4_BackupDrainLeavesNothing ==
    last.ev = "drained" => \A i \in 1..Len(backup) : el[backup[i]].rq = <<>>

\* C5: the reactions of one element are invoked in the order in which they
\* were appended: none is invoked while an earlier one is pending.
C5_PerElementFifo ==
    \A i, j \in 1..Len(rx) :
        (i < j /\ rx[i].e = rx[j].e /\ rx[j].st # "pending") => rx[i].st # "pending"

\* An element with two reactions invoked and a later one pending, while it
\* is on a queue of the reaction stack and on the backup element queue.
C5_Witness ==
    \E i, j, k \in 1..Len(rx) :
        /\ i < j /\ j < k
        /\ rx[i].e = rx[j].e /\ rx[j].e = rx[k].e
        /\ rx[i].st = "invoked" /\ rx[j].st = "invoked" /\ rx[k].st = "pending"
        /\ \E n \in 1..Len(backup) : backup[n] = rx[i].e
        /\ \E m \in 1..Len(rstack) : \E n \in 1..Len(rstack[m]) : rstack[m][n] = rx[i].e

\* C6: an error raised by a reaction inside invokeReactions is reported
\* once and goes no further: invokeReactions is on top of the call stack
\* again, the reaction queues of the other elements are as they were, the
\* queue of the element has lost nothing but the reaction taken unless the
\* element became failed, and no element queue has lost an element.
C6_ErrorIsolation ==
    [][ (last'.ev \in {"callback-threw", "upgrade-failed", "upgrade-error"}
            /\ last'.w = "reported") =>
          /\ reported' = reported + 1
          /\ frames' # <<>> /\ Last(frames').k = "invoke"
          /\ Len(frames') \in {Len(frames) - 1, Len(frames)}
          /\ \A x \in Elements : x # last'.e => el'[x].rq = el[x].rq
          /\ el'[last'.e].state # CE_STATE_FAILED =>
                \/ el'[last'.e].rq = el[last'.e].rq
                \/ el[last'.e].rq # <<>> /\ el'[last'.e].rq = Tail(el[last'.e].rq)
          /\ Len(rstack') = Len(rstack)
          /\ SubSeq(backup', 1, Len(backup)) = backup
      ]_vars

\* A callback has thrown while its element has reactions left and a later
\* element of the queue has reactions too.
C6_Witness ==
    /\ last.ev = "callback-threw"
    /\ el[last.e].rq # <<>>
    /\ frames # <<>> /\ Top.k = "invoke"
    /\ \E j \in (Top.i + 1)..Len(InvokeQueue(Top)) :
           /\ InvokeQueue(Top)[j] # last.e
           /\ el[InvokeQueue(Top)[j]].rq # <<>>

(***************************************************************************)
(* Properties of the upgrade.                                              *)
(***************************************************************************)
\* The constructor of element e is running.
Constructing(e) ==
    \E i \in 1..Len(frames) :
        frames[i].k = "ctor" /\ (frames[i].i = e \/ (frames[i].d # 0 /\ frames[i].e = e))

\* C7: when the constructor called by upgradeElement throws or returns
\* another object, the element is failed, its definition null and its
\* reaction queue empty, and the error goes to the caller (invokeReactions
\* reports it; performInitialUpgrades lets it through).  A later
\* tryToUpgradeElement or tryToUpgradeElementSync of an element that has
\* failed enqueues nothing and raises nothing.
C7_UpgradeFailure ==
    [][ /\ last'.ev = "upgrade-failed" =>
              /\ el'[last'.e].state = CE_STATE_FAILED
              /\ el'[last'.e].def = 0
              /\ el'[last'.e].rq = <<>>
              /\ \A id \in 1..Len(rx') : rx'[id].e = last'.e => rx'[id].st # "pending"
              /\ \/ last'.w = "reported" /\ reported' = reported + 1
                 \/ last'.w = "uncaught" /\ reported' = reported /\ frames' = <<>>
        /\ (/\ last'.ev = "hook"
            /\ \/ last'.v = "cloned"
               \/ last'.v = "inserted" /\ last'.w # CE_STATE_CUSTOM
            /\ el[last'.e].everFailed) =>
              rx' = rx /\ last'.u = "none" /\ el'[last'.e].rq = el[last'.e].rq
        /\ (/\ frames # <<>> /\ Top.k = "initial" /\ Top.i <= Len(Top.q)
            /\ el[Top.q[Top.i]].everFailed) =>
              last'.ev = "upgrade-skip" /\ rx' = rx /\ el' = el
      ]_vars

\* performInitialUpgrades has passed an element that failed to upgrade
\* before.
C7_Witness ==
    /\ last.ev = "upgrade-skip" /\ last.w = "sync"
    /\ el[last.e].everFailed /\ el[last.e].state = CE_STATE_FAILED

\* C8: a failed element has an empty reaction queue.
C8_FailedHasNoReactions ==
    \A e \in Elements : el[e].state = CE_STATE_FAILED => el[e].rq = <<>>

\* C9: a custom element has a definition, and its constructor is not running.
C9_CustomIsConstructed ==
    \A e \in Elements :
        el[e].state = CE_STATE_CUSTOM => el[e].def # 0 /\ ~Constructing(e)

\* The reactions upgradeElement has to enqueue for element e before it calls
\* the constructor: one per attribute, then one for the connection.
SeedsExpected(e) ==
    [i \in 1..(Len(el[e].attrs) + 1) |->
        IF i <= Len(el[e].attrs)
        THEN [cb |-> CE_CALLBACK_ATTRIBUTE_CHANGED,
              args |-> <<el[e].attrs[i].name, "null", el[e].attrs[i].value, "null">>]
        ELSE [cb |-> CE_CALLBACK_CONNECTED, args |-> <<>>]]

\* definition d observes every attribute of e and has both callbacks.
ObservesAll(d, e) ==
    /\ CE_CALLBACK_ATTRIBUTE_CHANGED \in definitions[d].lifecycleCallbacks
    /\ CE_CALLBACK_CONNECTED \in definitions[d].lifecycleCallbacks
    /\ \A i \in 1..Len(el[e].attrs) :
           el[e].attrs[i].name \in definitions[d].observedAttributes

\* C10: when upgradeElement(element, definition) calls the constructor for a
\* connected element all of whose attributes the definition observes, the
\* reactions created by this call are, at the end of the element's queue,
\* one attribute-changed reaction per attribute in attribute order (old value
\* null, new value the current one) and then one connected reaction.
C10_SeedingOrder ==
    (/\ last.ev = "upgrade"
     /\ el[last.e].connected
     /\ ObservesAll(last.d, last.e)) =>
        LET e == last.e
            want == SeedsExpected(e)
            rq == el[e].rq
            off == Len(rq) - Len(want)
        IN /\ Len(rx) - last.n = Len(want)
           /\ off >= 0
           /\ \A i \in 1..Len(want) :
                  /\ rq[off + i].type = callbackReactionType
                  /\ rq[off + i].cb = want[i].cb
                  /\ rq[off + i].args = want[i].args
                  /\ rq[off + i].id = last.n + i

(***************************************************************************)
(* Properties of the registry.                                             *)
(***************************************************************************)
\* A define call returned normally to its caller.
DefineReturned == last.ev = "exit" /\ last.kind = "define" /\ last.v = "return"

\* The name is registered: some definition has it.
Defined(defs, name) == \E i \in 1..Len(defs) : defs[i].name = name

\* The elements of the tree whose local name a definition of this name matches.
Qualifying(name) == {e \in TreeElements(St) : el[e].localName = name}

\* The step in which define ends its body: outside the loading state the
\* reactions it creates are one upgrade reaction per qualifying element of
\* the tree, and in the loading state it creates none.
C11_Sweep ==
    (/\ frames # <<>> /\ Top.k = "define" /\ Top.pc = "reading"
     /\ last'.ev = "flush") =>
        LET new == (Len(rx) + 1)..Len(rx')
        IN IF readyState = "loading" THEN rx' = rx
           ELSE /\ {rx'[id].e : id \in new} = Qualifying(Top.a[1])
                /\ \A id \in new : rx'[id].type = upgradeReactionType

\* When define returns normally, no upgrade reaction of its sweep is pending
\* (it was invoked, or an upgrade of its element that failed before it
\* discarded it) and its element is custom or failed.
C11_Flushed ==
    DefineReturned =>
        \A id \in (last.n + 1)..last.d :
            /\ Settled(id)
            /\ el[rx[id].e].state \in {CE_STATE_CUSTOM, CE_STATE_FAILED}

\* C11: outside the loading state a define call that returns normally has,
\* before it returns, invoked the upgrade reaction of every element that was
\* in the tree with a matching local name, so that each of them is custom or
\* failed; in the loading state define enqueues no upgrade reaction.
C11_DefineFlushesItsSweep == [][C11_Sweep]_vars /\ []C11_Flushed

\* A define call that swept both elements of the document has returned.
C11_Witness ==
    /\ DefineReturned
    /\ readyState # "loading"
    /\ last.d - last.n = NumElements
    /\ \E e \in Elements : el[e].state = CE_STATE_CUSTOM
    /\ \E e \in Elements : el[e].state = CE_STATE_FAILED

\* C12: after define(name, C) returns normally, get(name) is C, whatever
\* define calls preceded it; get(name) is undefined while no definition of
\* the name is registered.
C12_GetReturnsDefined ==
    /\ DefineReturned => get(definitions, last.a[1]) = last.a[2]
    /\ \A nm \in DefineNames :
           ~Defined(definitions, nm) => get(definitions, nm) = "undefined"

\* C13: no two definitions of the Definition Table have the same name.
C13_UniqueNames ==
    \A i, j \in 1..Len(definitions) :
        definitions[i].name = definitions[j].name => i = j

\* A handle is resolved only for a registered name, and its map entry is
\* then gone; a pending entry's handle is not resolved.
C14_Pending ==
    \A nm \in DefineNames :
        /\ promiseMap[nm].resolved =>
               Defined(definitions, nm) /\ promiseMap[nm].entry = "null"
        /\ promiseMap[nm].entry = "pending" => ~promiseMap[nm].resolved

\* Once the name is registered, the microtask that resolves a pending handle
\* is queued (whether or not an element of that name exists).
C14_Scheduled ==
    \A nm \in DefineNames :
        (promiseMap[nm].entry = "pending" /\ Defined(definitions, nm)) =>
            \E i \in 1..Len(microtasks) : microtasks[i] = ResolveTask(nm)

\* A handle is resolved by a microtask, when no function is running (so not
\* inside define), and the step removes the map entry.
C14_Resolution ==
    \A nm \in DefineNames :
        (promiseMap'[nm].resolved /\ ~promiseMap[nm].resolved) =>
            /\ frames = <<>> /\ frames' = <<>>
            /\ microtasks # <<>> /\ Head(microtasks) = ResolveTask(nm)
            /\ promiseMap'[nm].entry = "null"

\* C14: a handle whenDefined(name) returned while name was undefined stays
\* pending until define(name, ...) succeeds, is then resolved in a deferred
\* task (never inside define), without any element having to exist, and the
\* map entry of the name is removed once it is resolved.
C14_HandleResolvedAfterDefine ==
    [][C14_Resolution]_vars /\ [](C14_Pending /\ C14_Scheduled)

\* The handle of a name no element has was resolved by a microtask, and no
\* reaction was ever created.
C14_Witness ==
    /\ last.ev = "resolved"
    /\ promiseMap[NameXB].resolved
    /\ promiseMap[NameXB].entry = "null"
    /\ \A e \in Elements : el[e].localName # NameXB
    /\ rx = <<>>

\* A step of whenDefined(name): the name and what the call returned.
C15_Step ==
    (last'.ev = "whenDefined" /\ ops'.whenDefined = ops.whenDefined + 1) =>
        LET nm == last'.a[1]
        IN IF ~isValidCustomElementName(nm)
           THEN last'.v = "SyntaxError" /\ promiseMap' = promiseMap
           ELSE IF Defined(definitions, nm)
           THEN last'.v = "resolved" /\ promiseMap' = promiseMap
           ELSE /\ last'.v = "entry"
                /\ promiseMap'[nm].entry = "pending"
                /\ ~promiseMap'[nm].resolved
                /\ promiseMap'[nm].made = 1
                /\ promiseMap[nm].entry = "pending" => promiseMap' = promiseMap
                /\ \A other \in DefineNames \ {nm} :
                       promiseMap'[other] = promiseMap[other]

\* C15: whenDefined(name) fails with SyntaxError and creates no map entry
\* for an invalid name; for a valid name that is defined it returns an
\* already resolved handle; otherwise it returns the pending handle of the
\* name, created by the first such call and the same for every later one.
C15_WhenDefinedHandle == [][C15_Step]_vars

\* A second call of whenDefined for an undefined name returned the handle the
\* first call had created.
C15_Witness ==
    /\ last.ev = "whenDefined"
    /\ last.v = "entry"
    /\ last.w = "pending"
    /\ promiseMap[last.a[1]].made = 1

\* The ranges of characters a name may contain beyond [a-z0-9._-] and U+00B7.
C19_Ranges ==
    { <<192, 214>>, <<216, 246>>, <<248, 893>>, <<895, 8191>>, <<8204, 8205>>,
      <<8255, 8256>>, <<8304, 8591>>, <<11264, 12271>>, <<12289, 55295>>,
      <<63744, 64975>>, <<65008, 65533>>, <<65536, 983039>> }

C19_Allowed(cp) ==
    \/ cp \in 97..122 \/ cp \in 48..57
    \/ cp \in {45, 46, 95, 183}
    \/ \E r \in C19_Ranges : r[1] <= cp /\ cp <= r[2]

C19_Expected(cps) ==
    /\ cps \notin ReservedNames
    /\ Len(cps) >= 2
    /\ cps[1] \in 97..122
    /\ \A i \in 2..Len(cps) : C19_Allowed(cps[i])
    /\ \E i \in 2..Len(cps) : cps[i] = 45

\* C19: the validator returns true exactly when the candidate is not
\* reserved, has at least two characters, starts with a character of [a-z],
\* has every later character in [a-z0-9._-], U+00B7 or one of the listed
\* ranges (up to 0x10000-0xEFFFF), and has a hyphen after position 0; the
\* call changes nothing else.
C19_NameValidity ==
    last.ev = "isValidCustomElementName" =>
        /\ (last.v = "true") <=> C19_Expected(last.a[1])
        /\ definitions = <<>> /\ rx = <<>> /\ frames = <<>>

\* C16: a define call made while another define call has not yet returned
\* does not get past the running check: no define call starts to read its
\* prototype below which another define call is on the call stack.
C16_NoNestedDefine ==
    (last.ev = "call" /\ last.v = "define") =>
        \A i \in 1..(Len(frames) - 1) : frames[i].k # "define"

\* A define call is in progress.
DefineInProgress == \E i \in 1..Len(frames) : frames[i].k = "define"

\* C17: whenever no define call is in progress the running flag is false,
\* also after a getter of the prototype threw and after a nested define call
\* was rejected.
C17_FlagNeverStuck == ~DefineInProgress => ~running

\* A getter threw in a define call within which a nested define call had
\* been rejected, and no define call is in progress any more.
C17_Witness ==
    /\ last.ev = "exit" /\ last.kind = "define" /\ last.v = "Error"
    /\ ~DefineInProgress
    /\ ops.define = 2
    /\ definitions = <<>>

\* When the drain of the queue of a scope (executeCEReactions or define)
\* returns, every reaction created since the drain began is settled.
C20_ScopeDrain ==
    (last.ev = "exit" /\ last.v = "return") =>
        \A id \in (last.d + 1)..Len(rx) : Settled(id)

\* When the drain of the backup element queue returns, every reaction
\* created since the drain began is settled.
C20_BackupDrain ==
    last.ev = "drained" =>
        \A id \in (last.d + 1)..Len(rx) : Settled(id)

\* C20: the reactions enqueued while invokeReactions drains a queue, for the
\* element being processed or for another one, are invoked before that drain
\* pass returns, in the drain of the queue of a scope as in the drain of the
\* backup element queue.
C20_DrainPassTakesNewReactions == C20_ScopeDrain /\ C20_BackupDrain

\* A step of a hook of the tree collaborator that creates a reaction for its
\* element: with a queue on the stack the element is appended to the top
\* queue and nothing else changes; with the stack empty it is appended to the
\* backup element queue, and a drain microtask is queued (and the flag set)
\* only when the flag was unset.
C21_Placement ==
    (last'.ev = "hook" /\ ops'.hook = ops.hook + 1) =>
        LET e == last'.e
        IN IF rx' = rx
           THEN /\ rstack' = rstack /\ backup' = backup
                /\ microtasks' = microtasks /\ processing' = processing
           ELSE IF rstack # <<>>
           THEN /\ rstack' = [rstack EXCEPT ![Len(rstack)] = Append(@, e)]
                /\ backup' = backup
                /\ microtasks' = microtasks
                /\ processing' = processing
           ELSE /\ rstack' = rstack
                /\ backup' = Append(backup, e)
                /\ processing'
                /\ microtasks' = IF processing THEN microtasks
                                 ELSE Append(microtasks, BackupDrainTask)

\* The drain tasks of the backup element queue that are queued or running.
C21_DrainTasks ==
    Cardinality({i \in 1..Len(microtasks) : microtasks[i] = BackupDrainTask})
      + Cardinality({i \in 1..Len(frames) : frames[i].k = "drain"})

C21_SingleFlight == C21_DrainTasks <= 1 /\ (processing <=> C21_DrainTasks = 1)

\* C21: an element is placed on the top queue of the reaction stack when the
\* stack is not empty (the backup element queue is not touched and nothing
\* is scheduled), else on the backup element queue, a drain task being
\* scheduled only if the processing flag is unset; at most one drain task is
\* pending or running, and the flag is set exactly while one is.
C21_PlacementAndSingleFlight == [][C21_Placement]_vars /\ []C21_SingleFlight

\* A hook has put its element on the backup element queue while a drain task
\* was already pending for an earlier element.
C21_Witness ==
    /\ last.ev = "hook"
    /\ last.n < Len(rx)
    /\ rstack = <<>>
    /\ Len(backup) >= 2
    /\ Last(backup) = last.e
    /\ C21_DrainTasks = 1
    /\ frames # <<>> /\ Top.k = "task"

\* The calls of upgradeElement with definition d whose constructor is running.
UpgradesInProgress(d) ==
    {i \in 1..Len(frames) : frames[i].k = "ctor" /\ frames[i].d = d}

\* C22: the construction stack of a definition holds exactly one entry per
\* call of upgradeElement with that definition that is in progress: each call
\* pushes one entry and pops one before it exits, whether the constructor
\* returned the element, threw, or returned another object; so the stack is
\* empty whenever no upgrade with the definition is in progress.
C22_ConstructionStackSymmetry ==
    \A d \in 1..Len(definitions) :
        Len(definitions[d].constructionStack) = Cardinality(UpgradesInProgress(d))

\* An upgrade whose constructor returned another object has just ended, after
\* upgrades of the same definition that succeeded and that threw, and the
\* construction stack is empty.
C22_Witness ==
    /\ last.ev = "upgrade-failed" /\ last.v = "InvalidStateError"
    /\ UpgradesInProgress(last.d) = {}
    /\ definitions[last.d].constructionStack = <<>>
    /\ \E e \in Elements : el[e].state = CE_STATE_CUSTOM

\* C23: at the moment a callback reaction is invoked, the state of its
\* element is custom: no lifecycle callback runs on an element before the
\* construction of the element has completed.
C23_CallbackAfterConstruction ==
    last.ev = "callback" => last.v = CE_STATE_CUSTOM

\* upgradeElement has called the constructor at most once for each element.
C24_ConstructedOnce == \A e \in Elements : el[e].runs <= 1

\* An element that is custom or failed keeps its state.
C24_StateIsFinal ==
    \A e \in Elements :
        el[e].state \in {CE_STATE_CUSTOM, CE_STATE_FAILED} =>
            el'[e].state = el[e].state

\* C24: the upgrade algorithm runs the constructor at most once for any
\* element, and an element whose state is custom or failed never changes
\* state again.
C24_UpgradeOnce == []C24_ConstructedOnce /\ [][C24_StateIsFinal]_vars

\* A step leaves the definition of every element that is and stays custom.
C25_DefinitionKept ==
    \A e \in Elements :
        (el[e].state = CE_STATE_CUSTOM /\ el'[e].state = CE_STATE_CUSTOM) =>
            el'[e].def = el[e].def

\* C25: once the state of an element is custom, the definition it references
\* never changes; no later define call and its sweep replaces it.
C25_CustomKeepsDefinition == [][C25_DefinitionKept]_vars

\* C26: when the microtask that drains the backup element queue completes,
\* the backup element queue is empty.
C26_BackupQueueEmptied == last.ev = "drained" => backup = <<>>

\* The arguments <<name, constructor, ctorOk, extends>> are ones define must
\* reject: the constructor is not the constructor of its prototype, the name
\* is not valid, extends is a valid custom element name, or a define call is
\* reading its prototype.
Rejected(a) ==
    \/ ~a[3]
    \/ ~isValidCustomElementName(a[1])
    \/ a[4] # <<>> /\ isValidCustomElementName(a[4])
    \/ running

\* The step is the start of a define call; define is reading the prototype;
\* the step ends a define call with an error.
C18_Calling == ops'.define = ops.define + 1

C18_Reading == frames # <<>> /\ Top.k = "define" /\ Top.pc = "reading"

C18_Failing == last'.ev = "exit" /\ last'.kind = "define" /\ last'.v # "return"

\* A define call that is rejected, or whose reading of the prototype raises
\* an error, raises the error in its caller and changes neither the
\* definitions nor the whenDefined map, and creates no reaction and no
\* microtask.
C18_Step ==
    /\ ((C18_Calling /\ C18_Failing) \/ (C18_Reading /\ C18_Failing)) =>
           /\ definitions' = definitions
           /\ promiseMap' = promiseMap
           /\ rx' = rx
           /\ el' = el
           /\ backup' = backup
           /\ microtasks' = microtasks
    /\ (C18_Calling /\ Rejected(last'.a)) => (C18_Failing /\ frames' = frames)
    /\ (C18_Reading /\ ~C18_Calling /\ C18_Failing) =>
           (last'.v = "Error" /\ frames' = Front(frames))

\* C18: a define call that raises an error (constructor that is not its
\* prototype's constructor, invalid name, extends naming a valid custom
\* element name, re-entrant call, error while the callbacks are read)
\* propagates the error and leaves the Definition Table and the whenDefined
\* map as they were, and enqueues no reaction.
C18_DefineAllOrNothing == [][C18_Step]_vars

\* A define call has just failed while a definition is registered and a
\* whenDefined handle is pending.
C18_Witness ==
    /\ last.ev = "exit" /\ last.kind = "define" /\ last.v # "return"
    /\ definitions # <<>>
    /\ \E nm \in DefineNames : promiseMap[nm].entry = "pending"

=============================================================================
